---- MODULE Spec2Model ----
(***************************************************************************)
(* Model of the VMS Auto-Categorizer (src/app.py): the grammar helper      *)
(* conjugate_to_ing, the classifier auto_decide with its partner fallback  *)
(* chain, the category/subcategory selection controls, and the narrative   *)
(* generator generate_narrative.                                           *)
(*                                                                         *)
(* Texts are TLA+ strings; Len, SubSeq and \o act on them character by     *)
(* character.  The en dash (U+2013) of the source's subcategory names is   *)
(* written "~" here, because the module has to be ASCII: like the en dash  *)
(* it is one character that sorts after every ASCII letter.                *)
(***************************************************************************)
EXTENDS Integers, Sequences, FiniteSets, TLC

VARIABLES df, notes, organization, location,
          cat_widget, sub_widget,
          suggested, cat_list, cat_index, selected_category,
          sub_list, sub_index, selected_subcategory,
          narrative_call, final_summary, status, probe

vars == <<df, notes, organization, location, cat_widget, sub_widget,
          suggested, cat_list, cat_index, selected_category,
          sub_list, sub_index, selected_subcategory,
          narrative_call, final_summary, status, probe>>

appVars == <<df, notes, organization, location, cat_widget, sub_widget,
             suggested, cat_list, cat_index, selected_category,
             sub_list, sub_index, selected_subcategory,
             narrative_call, final_summary, status>>

-----------------------------------------------------------------------------
(* Python string primitives *)

\* The characters of the model in code point order (Python compares strings
\* by code point).
CharOrder == " ,-./ABCDEFGHIJKLMNOPQRSTUVWXYZabcdefghijklmnopqrstuvwxyz~"

UpperChars == "ABCDEFGHIJKLMNOPQRSTUVWXYZ"

LowerChars == "abcdefghijklmnopqrstuvwxyz"

CharAt(s, i) == SubSeq(s, i, i)

\* the rank of each character in that order
OrdOf ==
    [c \in {CharAt(CharOrder, i) : i \in 1..Len(CharOrder)} |->
        CHOOSE i \in 1..Len(CharOrder) : CharAt(CharOrder, i) = c]

Ord(c) == OrdOf[c]

UpperSet == {CharAt(UpperChars, i) : i \in 1..26}

LowerSet == {CharAt(LowerChars, i) : i \in 1..26}

\* the lower-case letter of each upper-case letter
LowerOf ==
    [c \in UpperSet |->
        CharAt(LowerChars, CHOOSE i \in 1..26 : CharAt(UpperChars, i) = c)]

IsUpperChar(c) == c \in UpperSet

IsLowerChar(c) == c \in LowerSet

LowerChar(c) == IF IsUpperChar(c) THEN LowerOf[c] ELSE c

\* str.lower()
RECURSIVE Lower(_)
Lower(s) == IF Len(s) = 0 THEN ""
            ELSE LowerChar(CharAt(s, 1)) \o Lower(SubSeq(s, 2, Len(s)))

\* sub in s
Contains(sub, s) ==
    \E i \in 1..(Len(s) - Len(sub) + 1) : SubSeq(s, i, i + Len(sub) - 1) = sub

\* s.endswith(suffix)
EndsWith(s, suffix) ==
    /\ Len(s) >= Len(suffix)
    /\ SubSeq(s, Len(s) - Len(suffix) + 1, Len(s)) = suffix

\* s.rstrip(chars): drops every trailing character that occurs in chars
RECURSIVE RStrip(_, _)
RStrip(s, chars) ==
    IF Len(s) > 0 /\ Contains(CharAt(s, Len(s)), chars)
    THEN RStrip(SubSeq(s, 1, Len(s) - 1), chars)
    ELSE s

RECURSIVE LStrip(_, _)
LStrip(s, chars) ==
    IF Len(s) > 0 /\ Contains(CharAt(s, 1), chars)
    THEN LStrip(SubSeq(s, 2, Len(s)), chars)
    ELSE s

\* s.strip(): whitespace on both ends (the model's whitespace is the space)
Strip(s) == LStrip(RStrip(s, " "), " ")

\* s.split(): the maximal runs of non-whitespace characters, in order
RECURSIVE SplitFrom(_, _, _)
SplitFrom(s, i, cur) ==
    IF i > Len(s)
    THEN IF cur = "" THEN <<>> ELSE <<cur>>
    ELSE IF CharAt(s, i) = " "
         THEN IF cur = "" THEN SplitFrom(s, i + 1, "")
              ELSE <<cur>> \o SplitFrom(s, i + 1, "")
         ELSE SplitFrom(s, i + 1, cur \o CharAt(s, i))

Split(s) == SplitFrom(s, 1, "")

\* " ".join(words)
RECURSIVE Join(_)
Join(words) ==
    IF Len(words) = 0 THEN ""
    ELSE IF Len(words) = 1 THEN words[1]
    ELSE words[1] \o " " \o Join(Tail(words))

\* s.isupper(): at least one cased character and no lowercase one
IsUpper(s) ==
    /\ \E i \in 1..Len(s) : IsUpperChar(CharAt(s, i))
    /\ \A i \in 1..Len(s) : ~IsLowerChar(CharAt(s, i))

\* a < b for strings, by code point
RECURSIVE StrLess(_, _)
StrLess(a, b) ==
    IF Len(b) = 0 THEN FALSE
    ELSE IF Len(a) = 0 THEN TRUE
    ELSE IF CharAt(a, 1) = CharAt(b, 1)
         THEN StrLess(SubSeq(a, 2, Len(a)), SubSeq(b, 2, Len(b)))
         ELSE Ord(CharAt(a, 1)) < Ord(CharAt(b, 1))

\* sorted(set of strings) as a list
RECURSIVE Sorted(_)
Sorted(S) ==
    IF S = {} THEN <<>>
    ELSE LET m == CHOOSE x \in S : \A y \in S \ {x} : StrLess(x, y)
         IN  <<m>> \o Sorted(S \ {m})

-----------------------------------------------------------------------------
(* conjugate_to_ing *)

\* the dict `replacements`, in insertion order
replacements ==
    << <<"hosted", "hosting">>, <<"prepped", "prepping">>,
       <<"created", "creating">>, <<"pulled", "pulling">>,
       <<"cleared", "clearing">>, <<"led", "leading">>,
       <<"assisted", "assisting">>, <<"removed", "removing">>,
       <<"monitored", "monitoring">>, <<"attended", "attending">>,
       <<"presented", "presenting">>, <<"conducted", "conducting">>,
       <<"organized", "organizing">>, <<"taught", "teaching">>,
       <<"gave", "giving">> >>

InReplacements(w) == \E i \in 1..Len(replacements) : replacements[i][1] = w

Replacement(w) ==
    replacements[CHOOSE i \in 1..Len(replacements) : replacements[i][1] = w][2]

\* clean_word = word.lower().rstrip(',.')
CleanWord(word) == RStrip(Lower(word), ",.")

\* punctuation = word[len(clean_word):]
Punctuation(word) == SubSeq(word, Len(CleanWord(word)) + 1, Len(word))

IsRegularPast_NoSuffixTest(clean_word) == Len(clean_word) > 4

\* clean_word.endswith('ed') and len(clean_word) > 4
IsRegularPast(clean_word) == EndsWith(clean_word, "ed") /\ Len(clean_word) > 4

RegularStem_KeepE(clean_word) == SubSeq(clean_word, 1, Len(clean_word) - 2)

\* stem = clean_word[:-2]; if stem.endswith('e'): stem = stem[:-1]
RegularStem(clean_word) ==
    LET stem == SubSeq(clean_word, 1, Len(clean_word) - 2)
    IN  IF EndsWith(stem, "e") THEN SubSeq(stem, 1, Len(stem) - 1) ELSE stem

\* one iteration of the loop over words
ConjugateWord(word) ==
    LET clean_word == CleanWord(word)
        punctuation == Punctuation(word)
    IN  IF InReplacements(clean_word)
        THEN Replacement(clean_word) \o punctuation
        ELSE IF IsRegularPast(clean_word)
             THEN RegularStem(clean_word) \o "ing" \o punctuation
             ELSE word

conjugate_to_ing(text) ==
    LET words == Split(text)
    IN  IF Len(words) = 0 THEN text
        ELSE Join([i \in 1..Len(words) |-> ConjugateWord(words[i])])

-----------------------------------------------------------------------------
(* auto_decide *)

\* the dict `partner_map`, in insertion order
partner_map ==
    << <<"san antonio river", "San Antonio River Authority">>,
       <<"sara", "San Antonio River Authority">>,
       <<"river foundation", "San Antonio River Authority">>,
       <<"mitchell lake", "Mitchell Lake Audubon Center">>,
       <<"botanical garden", "San Antonio Botanical Garden">>,
       <<"bulverde oaks", "Bulverde Oaks Nature Preserve">>,
       <<"cibolo", "Cibolo Conservation Center">>,
       <<"government canyon", "Government Canyon">>,
       <<"guadalupe river", "Guadalupe River State Park">>,
       <<"headwaters", "Headwaters-Incarnate Word">>,
       <<"witte", "Witte Museum">>,
       <<"phil hardberger", "San Antonio Parks and Recreation">>,
       <<"friedrich", "San Antonio Parks and Recreation">>,
       <<"canyon gorge", "Canyon Gorge">>,
       <<"kendall county", "Kendall County Parks Partnership">>,
       <<"kronkosky", "Kronkosky State Natural Area">> >>

\* partner = "AAMN"; for key, val in partner_map.items(): first key in o_l wins
IdentifyPartner(o_l) ==
    IF \E i \in 1..Len(partner_map) : Contains(partner_map[i][1], o_l)
    THEN LET first == CHOOSE i \in 1..Len(partner_map) :
                         /\ Contains(partner_map[i][1], o_l)
                         /\ \A j \in 1..(i - 1) : ~Contains(partner_map[j][1], o_l)
         IN  partner_map[first][2]
    ELSE "AAMN"

\* any(word in t for word in words)
AnyIn(words, t) == \E w \in words : Contains(w, t)

ChapterWords == {"board", "committee", "admin", "meeting", "reporting hours"}

TrainingWords == {"webinar", "lecture", "training", "workshop", "tmn tuesday"}

OutreachWords == {"outreach", "booth", "presentation", "public", "students",
                  "tour", "guide", "class"}

InvasiveWords == {"invasive", "weed", "privet", "chinaberry"}

TrailWords == {"trail", "maintenance", "clearing", "trash", "litter", "cleanup"}

ResearchWords == {"survey", "monitoring", "bird count", "inaturalist"}

RestoreWords == {"planting", "restore", "restoration"}

TrainingActivity_AlwaysPresentations(t) == "Presentations"

\* base_activity = "TMN Tuesday" if "tmn tuesday" in t else "Presentations"
TrainingActivity(t) ==
    IF Contains("tmn tuesday", t) THEN "TMN Tuesday" ELSE "Presentations"

\* the if/elif chain: the first group with a keyword in t decides
\* (category, base_activity); `direct` is the training group's early return
BaseActivity(t) ==
    IF AnyIn(ChapterWords, t)
    THEN [category |-> "Chapter Business", base_activity |-> "Chapter Business",
          direct |-> FALSE]
    ELSE IF AnyIn(TrainingWords, t)
    THEN [category |-> "Advanced Training", base_activity |-> TrainingActivity(t),
          direct |-> TRUE]
    ELSE IF AnyIn(OutreachWords, t)
    THEN [category |-> "Public Outreach", base_activity |-> "Public Outreach",
          direct |-> FALSE]
    ELSE IF AnyIn(InvasiveWords, t)
    THEN [category |-> "Resource Management", base_activity |-> "Invasives",
          direct |-> FALSE]
    ELSE IF AnyIn(TrailWords, t)
    THEN [category |-> IF Contains("trail", t) THEN "Nature/Public Access"
                       ELSE "Resource Management",
          base_activity |-> IF Contains("trail", t) THEN "Access Nature"
                            ELSE "Trash Removal",
          direct |-> FALSE]
    ELSE IF AnyIn(ResearchWords, t)
    THEN [category |-> "Field Research",
          base_activity |-> IF Contains("inaturalist", t)
                            THEN "iNaturalist Observations"
                            ELSE "Field Research",
          direct |-> FALSE]
    ELSE IF AnyIn(RestoreWords, t)
    THEN [category |-> "Resource Management", base_activity |-> "Habitat Restore",
          direct |-> FALSE]
    ELSE [category |-> "Other", base_activity |-> "Other", direct |-> FALSE]

\* df[df['vms_subcategory'] == sub] is not empty
SubcategoryExists(table, sub) ==
    \E i \in 1..Len(table) : table[i].vms_subcategory = sub

\* the rows of df[df['vms_category_name'] == category], as row numbers
CategoryRows(table, category) ==
    {i \in 1..Len(table) : table[i].vms_category_name = category}

Returned(category, sub) ==
    [raised |-> FALSE, category |-> category, subcategory |-> sub]

\* .iloc[0] of an empty selection raises IndexError: auto_decide returns nothing
Raised == [raised |-> TRUE, category |-> "", subcategory |-> ""]

ValidateSubcategory_NoChapterFallback(table, category, base_activity, partner) ==
    LET suggested_sub == base_activity \o " ~ " \o partner
        rows == CategoryRows(table, category)
    IN  IF SubcategoryExists(table, suggested_sub)
        THEN Returned(category, suggested_sub)
        ELSE IF rows = {} THEN Raised
             ELSE Returned(category,
                           table[CHOOSE i \in rows : \A j \in rows : i <= j].vms_subcategory)

\* "{base_activity} - {partner}", else "{base_activity} - AAMN", else the
\* first row of the category (.iloc[0])
ValidateSubcategory(table, category, base_activity, partner) ==
    LET suggested_sub == base_activity \o " ~ " \o partner
        fallback_sub == base_activity \o " ~ AAMN"
        rows == CategoryRows(table, category)
    IN  IF SubcategoryExists(table, suggested_sub)
        THEN Returned(category, suggested_sub)
        ELSE IF SubcategoryExists(table, fallback_sub)
        THEN Returned(category, fallback_sub)
        ELSE IF rows = {} THEN Raised
             ELSE Returned(category,
                           table[CHOOSE i \in rows : \A j \in rows : i <= j].vms_subcategory)

\* auto_decide once t and o_l are computed
Decide(t, o_l, table) ==
    LET partner == IdentifyPartner(o_l)
        base == BaseActivity(t)
    IN  IF base.direct
        THEN Returned(base.category, base.base_activity)
        ELSE ValidateSubcategory(table, base.category, base.base_activity,
                                 partner)

\* t = task_text.lower(); o_l = (org_text + " " + loc_text).lower()
auto_decide(task_text, org_text, loc_text, table) ==
    IF task_text = "" THEN Returned("Other", "Other ~ AAMN")
    ELSE CHOOSE r \in { Decide(t, o_l, table) :
                          t \in {Lower(task_text)},
                          o_l \in {Lower(org_text \o " " \o loc_text)} } : TRUE

-----------------------------------------------------------------------------
(* selection controls *)

\* list.index(value): the first position of value, counted from 0
ListIndex(list, value) ==
    (CHOOSE i \in 1..Len(list) :
        /\ list[i] = value
        /\ \A j \in 1..(i - 1) : list[j] # value) - 1

InList(list, value) == \E i \in 1..Len(list) : list[i] = value

resolve_index_Last(suggested_value, valid_values) ==
    IF InList(valid_values, suggested_value)
    THEN ListIndex(valid_values, suggested_value)
    ELSE Len(valid_values) - 1

\* valid.index(suggested) if suggested in valid else 0
resolve_index(suggested_value, valid_values) ==
    IF InList(valid_values, suggested_value)
    THEN ListIndex(valid_values, suggested_value)
    ELSE 0

\* sorted(df['vms_category_name'].unique().tolist())
CatList(table) == Sorted({table[i].vms_category_name : i \in 1..Len(table)})

SubList_FullTable(table, category) ==
    Sorted({table[i].vms_subcategory : i \in 1..Len(table)})

\* sub_df = df[df['vms_category_name'] == selected_category];
\* sorted(sub_df['vms_subcategory'].unique().tolist())
SubList(table, category) ==
    Sorted({table[i].vms_subcategory : i \in CategoryRows(table, category)})

\* what st.selectbox returns for an empty option list
None == "<None>"

\* no choice of the user is stored for a control
NoChoice == [set |-> FALSE, options |-> <<>>, index |-> 0, value |-> ""]

Choice(options, index, value) ==
    [set |-> TRUE, options |-> options, index |-> index, value |-> value]

\* a stored choice belongs to the control drawn with these options and index
Applies(w, options, index) ==
    w.set /\ w.options = options /\ w.index = index

\* st.selectbox(label, options, index=index): the user's choice for this
\* control if there is one, else options[index]
selectbox(options, index, w) ==
    IF Len(options) = 0 THEN None
    ELSE IF Applies(w, options, index) THEN w.value
    ELSE options[index + 1]

-----------------------------------------------------------------------------
(* generate_narrative *)

OrgStr_Raw(org) == org

\* org_str = org if org else "the AAMN chapter"
OrgStr(org) == IF org # "" THEN org ELSE "the AAMN chapter"

\* loc_str = f" at {loc}" if loc else ""
LocStr(loc) == IF loc # "" THEN " at " \o loc ELSE ""

\* clean_notes = conjugate_to_ing(task.strip().rstrip('.')), first character
\* lowered unless clean_notes[:2].isupper()
CleanNotes(task) ==
    LET clean_notes == conjugate_to_ing(RStrip(Strip(task), "."))
    IN  IF clean_notes # "" /\ ~IsUpper(SubSeq(clean_notes, 1,
                                   IF Len(clean_notes) < 2 THEN Len(clean_notes) ELSE 2))
        THEN LowerChar(CharAt(clean_notes, 1))
                 \o SubSeq(clean_notes, 2, Len(clean_notes))
        ELSE clean_notes

\* the templates, chosen by category
RenderTemplate(cat, sub, task, org, loc) ==
    LET clean_notes == CleanNotes(task)
        org_str == OrgStr(org)
        loc_str == LocStr(loc)
    IN  IF cat = "Advanced Training"
        THEN "I attended an advanced training session regarding " \o sub
                 \o " provided by " \o org_str \o loc_str
                 \o ". The session involved " \o clean_notes \o "."
        ELSE IF cat = "Public Outreach"
        THEN "Representing the Master Naturalist program" \o loc_str
                 \o ", I engaged in public outreach with " \o org_str
                 \o " by " \o clean_notes \o "."
        ELSE IF cat = "Field Research"
        THEN "I contributed to citizen science and research efforts for "
                 \o sub \o loc_str \o " by " \o clean_notes \o "."
        ELSE IF cat = "Nature/Public Access"
                   \/ Contains("Resource Management", cat)
        THEN "I provided habitat restoration and trail maintenance service for "
                 \o sub \o loc_str \o " with " \o org_str
                 \o " by " \o clean_notes \o "."
        ELSE "I provided volunteer service for " \o sub
                 \o " in coordination with " \o org_str \o loc_str
                 \o " by " \o clean_notes \o "."

generate_narrative_NoEmptyGuard(cat, sub, task, org, loc) ==
    RenderTemplate(cat, sub, task, org, loc)

\* if not task: return ""
generate_narrative(cat, sub, task, org, loc) ==
    IF task = "" THEN "" ELSE RenderTemplate(cat, sub, task, org, loc)

-----------------------------------------------------------------------------
(* the script: one run from top to bottom per interaction *)

\* most rows a reference table of the model has
MaxRows == 2

Row(c, s) == [vms_category_name |-> c, vms_subcategory |-> s]

\* the rows the tables of the model are made of
RowUniverse ==
    { Row("Resource Management", "Invasives ~ San Antonio River Authority"),
      Row("Resource Management", "Invasives ~ AAMN"),
      Row("Resource Management", "Habitat Restore ~ AAMN"),
      Row("Public Outreach", "Invasives ~ AAMN"),
      Row("Other", "Other ~ AAMN"),
      Row("Chapter Business", "Chapter Business ~ AAMN"),
      Row("Advanced Training", "TMN Tuesday") }

\* the reference tables: 1..MaxRows distinct rows in any order
Tables ==
    { t \in UNION { [1..n -> RowUniverse] : n \in 1..MaxRows } :
        \A i, j \in 1..Len(t) : i # j => t[i] # t[j] }

TaskTexts == { "", "Pulled invasive weeds.", "board meeting",
               "TMN Tuesday webinar", "tmn tuesday board training",
               "walked dogs", "planting" }

OrgTexts == { "", "San Antonio River Foundation", "Witte" }

LocTexts == { "", "Confluence Park" }

NoCall == [called |-> FALSE, cat |-> "", sub |-> "", task |-> "",
           org |-> "", loc |-> ""]

NoProbe == [fn |-> "none"]

\* what a run leaves behind, given the values it computed on its way:
\* s = auto_decide(...), cl/ci/sc and sl/si/ss the list, index and selection
\* of the category and of the subcategory control
Outcome(s, cl, ci, sc, sl, si, ss, n, o, l, cw, sw) ==
    IF s.raised
    THEN [suggested |-> s, status |-> "IndexError",
          cat_list |-> <<>>, cat_index |-> 0, selected_category |-> "",
          sub_list |-> <<>>, sub_index |-> 0, selected_subcategory |-> "",
          cat_widget |-> NoChoice, sub_widget |-> NoChoice,
          narrative_call |-> NoCall, final_summary |-> ""]
    ELSE [suggested |-> s, status |-> "ok",
          cat_list |-> cl, cat_index |-> ci, selected_category |-> sc,
          sub_list |-> sl, sub_index |-> si, selected_subcategory |-> ss,
          cat_widget |-> IF Applies(cw, cl, ci) THEN cw ELSE NoChoice,
          sub_widget |-> IF Applies(sw, sl, si) THEN sw ELSE NoChoice,
          narrative_call |->
              IF n # ""
              THEN [called |-> TRUE, cat |-> sc, sub |-> ss, task |-> n,
                    org |-> o, loc |-> l]
              ELSE NoCall,
          final_summary |->
              IF n # "" THEN generate_narrative(sc, ss, n, o, l) ELSE ""]

\* one run of the script, top to bottom, on the inputs n, o, l, the table and
\* the choices cw, sw stored for the two selection controls
RunScript(table, n, o, l, cw, sw) ==
    LET s == auto_decide(n, o, l, table)
        cl == CatList(table)
        ci == resolve_index(s.category, cl)
        sc == selectbox(cl, ci, cw)
        sl == SubList(table, sc)
        si == resolve_index(s.subcategory, sl)
        ss == selectbox(sl, si, sw)
    IN  Outcome(s, cl, ci, sc, sl, si, ss, n, o, l, cw, sw)

\* the state after a run
Ran(r) ==
    /\ suggested = r.suggested
    /\ status = r.status
    /\ cat_list = r.cat_list
    /\ cat_index = r.cat_index
    /\ selected_category = r.selected_category
    /\ sub_list = r.sub_list
    /\ sub_index = r.sub_index
    /\ selected_subcategory = r.selected_subcategory
    /\ cat_widget = r.cat_widget
    /\ sub_widget = r.sub_widget
    /\ narrative_call = r.narrative_call
    /\ final_summary = r.final_summary

\* the state after the next run
RanNext(r) ==
    /\ suggested' = r.suggested
    /\ status' = r.status
    /\ cat_list' = r.cat_list
    /\ cat_index' = r.cat_index
    /\ selected_category' = r.selected_category
    /\ sub_list' = r.sub_list
    /\ sub_index' = r.sub_index
    /\ selected_subcategory' = r.selected_subcategory
    /\ cat_widget' = r.cat_widget
    /\ sub_widget' = r.sub_widget
    /\ narrative_call' = r.narrative_call
    /\ final_summary' = r.final_summary

Rerun(n, o, l, cw, sw) ==
    /\ notes' = n
    /\ organization' = o
    /\ location' = l
    /\ \E r \in {RunScript(df, n, o, l, cw, sw)} : RanNext(r)
    /\ UNCHANGED <<df, probe>>

\* the first run: the table is loaded, the three inputs are empty
Init ==
    /\ df \in Tables
    /\ notes = ""
    /\ organization = ""
    /\ location = ""
    /\ \E r \in {RunScript(df, "", "", "", NoChoice, NoChoice)} : Ran(r)
    /\ probe = NoProbe

EditNotes ==
    \E n \in TaskTexts \ {notes} :
        Rerun(n, organization, location, cat_widget, sub_widget)

EditOrganization ==
    \E o \in OrgTexts \ {organization} :
        Rerun(notes, o, location, cat_widget, sub_widget)

EditLocation ==
    \E l \in LocTexts \ {location} :
        Rerun(notes, organization, l, cat_widget, sub_widget)

\* the user picks another category in "Confirm VMS Category"
OverrideCategory ==
    /\ status = "ok"
    /\ \E i \in 1..Len(cat_list) :
          /\ cat_list[i] # selected_category
          /\ Rerun(notes, organization, location,
                   Choice(cat_list, cat_index, cat_list[i]), sub_widget)

\* the user picks another subcategory in "Confirm VMS Subcategory"
OverrideSubcategory ==
    /\ status = "ok"
    /\ \E i \in 1..Len(sub_list) :
          /\ sub_list[i] # selected_subcategory
          /\ Rerun(notes, organization, location, cat_widget,
                   Choice(sub_list, sub_index, sub_list[i]))

Next ==
    \/ EditNotes
    \/ EditOrganization
    \/ EditLocation
    \/ OverrideCategory
    \/ OverrideSubcategory

Spec == Init /\ [][Next]_vars

-----------------------------------------------------------------------------
(* conjugate_to_ing and generate_narrative on their own *)

\* the script's state while a function is run on its own
AppIdle ==
    /\ df = <<>>
    /\ notes = ""
    /\ organization = ""
    /\ location = ""
    /\ suggested = Returned("", "")
    /\ status = "idle"
    /\ cat_list = <<>>
    /\ cat_index = 0
    /\ selected_category = ""
    /\ sub_list = <<>>
    /\ sub_index = 0
    /\ selected_subcategory = ""
    /\ cat_widget = NoChoice
    /\ sub_widget = NoChoice
    /\ narrative_call = NoCall
    /\ final_summary = ""

\* most tokens of a text given to conjugate_to_ing
MaxTokens == 2

TokenSet == { "led", "Led.", "gave", "Pulled", "hosted.,", "walked",
              "restored,", "used", "SPEED", "leading", "weeding.",
              "trails", "...", "the" }

ConjTexts ==
    { Join(w) : w \in UNION { [1..n -> TokenSet] : n \in 0..MaxTokens } }
        \cup { " ", "  led   the  hike. ", " Walked dogs" }

InitConj ==
    /\ AppIdle
    /\ \E t \in ConjTexts :
          probe = [fn |-> "input", text |-> t, out |-> "", again |-> ""]

\* out = conjugate_to_ing(text)
Conjugate ==
    /\ probe.fn = "input"
    /\ probe' = [probe EXCEPT !.fn = "conjugate_to_ing",
                              !.out = conjugate_to_ing(probe.text)]
    /\ UNCHANGED appVars

\* again = conjugate_to_ing(out)
Reconjugate ==
    /\ probe.fn = "conjugate_to_ing"
    /\ probe' = [probe EXCEPT !.fn = "reapplied",
                              !.again = conjugate_to_ing(probe.out)]
    /\ UNCHANGED appVars

NextConj == Conjugate \/ Reconjugate

SpecConj == InitConj /\ [][NextConj]_vars

NarrCats == { "Advanced Training", "Public Outreach", "Field Research",
              "Nature/Public Access", "Resource Management", "Other",
              "Chapter Business" }

NarrSubs == { "Presentations", "Invasives ~ AAMN" }

NarrTasks == { "", " ", "attended a workshop on pollinators",
               "Pulled invasive weeds.", "SARA cleanup led by staff",
               " Walked dogs.. " }

NarrOrgs == { "", "Witte Museum" }

NarrLocs == { "", "Confluence Park" }

InitNarr ==
    /\ AppIdle
    /\ \E c \in NarrCats, sb \in NarrSubs, t \in NarrTasks,
          o \in NarrOrgs, l \in NarrLocs :
          probe = [fn |-> "input", cat |-> c, sub |-> sb, task |-> t,
                   org |-> o, loc |-> l, out |-> ""]

\* out = generate_narrative(cat, sub, task, org, loc)
Render ==
    /\ probe.fn = "input"
    /\ probe' = [probe EXCEPT !.fn = "generate_narrative",
                              !.out = generate_narrative(probe.cat, probe.sub,
                                          probe.task, probe.org, probe.loc)]
    /\ UNCHANGED appVars

NextNarr == Render

SpecNarr == InitNarr /\ [][NextNarr]_vars

-----------------------------------------------------------------------------
(* properties *)

TableHas(c, sb) == \E i \in 1..Len(df) : df[i] = Row(c, sb)

TableHasSub(sb) == \E i \in 1..Len(df) : df[i].vms_subcategory = sb

Elems(list) == {list[i] : i \in 1..Len(list)}

C2_ChapterBusinessWins ==
    (notes # "" /\ AnyIn(ChapterWords, Lower(notes)))
        => (~suggested.raised /\ suggested.category = "Chapter Business")

\* C3, as stated: every task text containing "tmn tuesday" is classified
\* ("Advanced Training", "TMN Tuesday") (read here for the calls of
\* auto_decide that return).
C3_Original ==
    (Contains("tmn tuesday", Lower(notes)) /\ ~suggested.raised)
        => suggested = Returned("Advanced Training", "TMN Tuesday")

\* C3, amended: a task text containing "tmn tuesday" (in any case) and no
\* chapter-business keyword is classified ("Advanced Training",
\* "TMN Tuesday"), returned as it is: no partner is appended and the
\* reference table is not consulted.
C3_TmnTuesday ==
    (Contains("tmn tuesday", Lower(notes)) /\ ~AnyIn(ChapterWords, Lower(notes)))
        => suggested = Returned("Advanced Training", "TMN Tuesday")

\* "TMN Tuesday" is returned although the organization names a partner and
\* the table has no such row
C3_Witness ==
    /\ notes = "TMN Tuesday webinar"
    /\ organization = "Witte"
    /\ ~TableHasSub("TMN Tuesday")
    /\ suggested.subcategory = "TMN Tuesday"

\* the index is the position of s in the sorted list of distinct values
\* (the number of smaller values) when s is in the list, and 0 when it is not
IndexIsPositionOrZero(s, list, idx) ==
    IF s \in Elems(list)
    THEN /\ idx = Cardinality({x \in Elems(list) : StrLess(x, s)})
         /\ list[idx + 1] = s
    ELSE idx = 0

SuggestionProbes ==
    { "", "Other", "Presentations", "TMN Tuesday", "Invasives ~ AAMN",
      "Resource Management" }

\* C4: the selection index is the exact position of the suggested value in
\* the list when it is there and 0 otherwise, for the empty suggestion too;
\* the subcategory list holds the subcategories of the selected category's
\* rows and nothing else, and the subcategory index is taken in that list.
C4_SelectionIndex ==
    status = "ok" =>
        /\ IndexIsPositionOrZero(suggested.category, cat_list, cat_index)
        /\ IndexIsPositionOrZero(suggested.subcategory, sub_list, sub_index)
        /\ \A s \in SuggestionProbes :
              /\ IndexIsPositionOrZero(s, cat_list, resolve_index(s, cat_list))
              /\ IndexIsPositionOrZero(s, sub_list, resolve_index(s, sub_list))
        /\ Elems(sub_list) =
              {df[i].vms_subcategory : i \in CategoryRows(df, selected_category)}
        /\ (sub_list[sub_index + 1] = suggested.subcategory
              => TableHas(selected_category, suggested.subcategory))

\* the suggested subcategory is in the table under another category only: the
\* subcategory index falls back to 0, while the suggested category is found
\* at a position other than 0
C4_Witness ==
    /\ status = "ok"
    /\ notes # ""
    /\ TableHasSub(suggested.subcategory)
    /\ ~TableHas(selected_category, suggested.subcategory)
    /\ sub_index = 0
    /\ cat_index > 0
    /\ cat_list[cat_index + 1] = suggested.category

\* C5: for a non-empty task that does not take the training return, the
\* subcategory is the first that exists of "{base_activity} - {partner}",
\* "{base_activity} - AAMN" and the first row of the resolved category, and
\* auto_decide returns whenever the category has a row; with an organization
\* containing "San Antonio River Foundation" and an invasives task the
\* partner is "San Antonio River Authority".
C5_FallbackChain ==
    (notes # "" /\ ~BaseActivity(Lower(notes)).direct) =>
        LET base == BaseActivity(Lower(notes))
            partner == IdentifyPartner(Lower(organization \o " " \o location))
            a == base.base_activity \o " ~ " \o partner
            b == base.base_activity \o " ~ AAMN"
            rows == {i \in 1..Len(df) : df[i].vms_category_name = base.category}
        IN  /\ TableHasSub(a) => suggested = Returned(base.category, a)
            /\ (~TableHasSub(a) /\ TableHasSub(b))
                  => suggested = Returned(base.category, b)
            /\ (~TableHasSub(a) /\ ~TableHasSub(b) /\ rows # {})
                  => \E i \in rows :
                        /\ \A j \in rows : i <= j
                        /\ suggested = Returned(base.category,
                                                df[i].vms_subcategory)
            /\ rows # {} => ~suggested.raised
            /\ (/\ Contains("San Antonio River Foundation", organization)
                /\ Contains("invasive", Lower(notes))
                /\ base.base_activity = "Invasives"
                /\ TableHasSub("Invasives ~ San Antonio River Authority"))
                  => EndsWith(suggested.subcategory,
                              "~ San Antonio River Authority")

\* the partner is inferred, its row is missing, and the AAMN row is taken
C5_Witness ==
    /\ notes = "Pulled invasive weeds."
    /\ organization = "San Antonio River Foundation"
    /\ ~TableHasSub("Invasives ~ San Antonio River Authority")
    /\ TableHasSub("Invasives ~ AAMN")
    /\ suggested = Returned("Resource Management", "Invasives ~ AAMN")

NoGroupMatches(t) ==
    ~AnyIn(ChapterWords \cup TrainingWords \cup OutreachWords \cup InvasiveWords
             \cup TrailWords \cup ResearchWords \cup RestoreWords, t)

\* C6: a non-empty task matching no keyword group is not an error:
\* auto_decide returns category "Other" for every organization, location and
\* reference table, the run does not crash, and the category index is 0 when
\* "Other" is not a category of the table.
C6_NoMatchIsOther ==
    (notes # "" /\ NoGroupMatches(Lower(notes))) =>
        /\ status = "ok"
        /\ ~suggested.raised
        /\ suggested.category = "Other"
        /\ ("Other" \notin Elems(cat_list) => cat_index = 0)

\* C7: generate_narrative returns "" for an empty task, whatever the
\* category, subcategory, organization and location.
C7_EmptyTaskEmptyNarrative ==
    (probe.fn = "generate_narrative" /\ probe.task = "") => probe.out = ""

C7_Witness ==
    /\ probe.fn = "generate_narrative"
    /\ probe.task = ""
    /\ probe.cat = "Advanced Training"
    /\ probe.org # ""
    /\ probe.loc # ""
    /\ probe.out = ""

HasNoAt(s) == ~Contains(" at ", s)

StartsWith(s, prefix) ==
    /\ Len(s) >= Len(prefix)
    /\ SubSeq(s, 1, Len(prefix)) = prefix

\* C8: for a non-empty task, an empty organization is rendered exactly as the
\* organization "the AAMN chapter" would be; a non-empty location appears
\* as " at {location}" inserted at one place of the sentence rendered
\* without location, and without location no " at " appears; the example of
\* the workshop on pollinators begins as stated.
C8_OrganizationAndLocation ==
    (probe.fn = "generate_narrative" /\ probe.task # "") =>
        /\ probe.out # ""
        /\ probe.org = "" =>
              /\ probe.out = generate_narrative(probe.cat, probe.sub, probe.task,
                                                "the AAMN chapter", probe.loc)
              /\ probe.cat # "Field Research"
                    => Contains("the AAMN chapter", probe.out)
        /\ probe.loc # "" =>
              LET base == generate_narrative(probe.cat, probe.sub, probe.task,
                                             probe.org, "")
              IN  \E i \in 0..Len(base) :
                     probe.out = SubSeq(base, 1, i) \o " at " \o probe.loc
                                     \o SubSeq(base, i + 1, Len(base))
        /\ (/\ probe.loc = ""
            /\ HasNoAt(probe.task) /\ HasNoAt(probe.sub) /\ HasNoAt(probe.org))
              => HasNoAt(probe.out)
        /\ (/\ probe.cat = "Advanced Training"
            /\ probe.sub = "Presentations"
            /\ probe.task = "attended a workshop on pollinators"
            /\ probe.org = ""
            /\ probe.loc = "")
              => /\ StartsWith(probe.out,
                        "I attended an advanced training session regarding "
                            \o "Presentations provided by the AAMN chapter.")
                 /\ HasNoAt(probe.out)

C8_Witness ==
    /\ probe.fn = "generate_narrative"
    /\ probe.cat = "Advanced Training"
    /\ probe.sub = "Presentations"
    /\ probe.task = "attended a workshop on pollinators"
    /\ probe.org = ""
    /\ probe.loc = ""
    /\ probe.out = "I attended an advanced training session regarding "
                       \o "Presentations provided by the AAMN chapter. "
                       \o "The session involved attending a workshop on pollinators."

IsPunct(c) == c = "." \/ c = ","

\* the length of a token without its trailing '.' and ','
CoreLen(tok) ==
    CHOOSE k \in 0..Len(tok) :
        /\ \A i \in (k + 1)..Len(tok) : IsPunct(CharAt(tok, i))
        /\ k = 0 \/ ~IsPunct(CharAt(tok, k))

Core(tok) == SubSeq(tok, 1, CoreLen(tok))

TrailingPunct(tok) == SubSeq(tok, CoreLen(tok) + 1, Len(tok))

\* C9: a token already in -ing form (with or without trailing '.' or ',')
\* comes out unchanged, and applying conjugate_to_ing to its own output gives
\* that output again.
C9_Idempotent ==
    /\ probe.fn \in {"conjugate_to_ing", "reapplied"} =>
          LET in == Split(probe.text)
              out == Split(probe.out)
          IN  \A i \in 1..Len(in) :
                 EndsWith(Core(in[i]), "ing") => (Len(out) >= i /\ out[i] = in[i])
    /\ probe.fn = "reapplied" => probe.again = probe.out

\* the first application changed the text, the second changes nothing
C9_Witness ==
    /\ probe.fn = "reapplied"
    /\ probe.text = "Pulled weeding."
    /\ probe.out = "pulling weeding."
    /\ probe.again = "pulling weeding."

\* what the three rules give for a token, looked up as `lookup`
RuleResult(tok, lookup) ==
    IF \E i \in 1..Len(replacements) : replacements[i][1] = lookup
    THEN (CHOOSE v \in {replacements[i][2] : i \in 1..Len(replacements)} :
             \E i \in 1..Len(replacements) :
                 replacements[i] = <<lookup, v>>) \o TrailingPunct(tok)
    ELSE IF EndsWith(lookup, "ed") /\ Len(lookup) > 4
    THEN LET stem == SubSeq(lookup, 1, Len(lookup) - 2)
         IN  (IF EndsWith(stem, "e") THEN SubSeq(stem, 1, Len(stem) - 1)
              ELSE stem) \o "ing" \o TrailingPunct(tok)
    ELSE tok

\* C10, as stated: the tokens keep their number and order, and each token,
\* looked up with its trailing '.' and ',' stripped, follows the three rules.
C10_Original ==
    probe.fn \in {"conjugate_to_ing", "reapplied"} =>
        LET in == Split(probe.text)
            out == Split(probe.out)
        IN  /\ Len(out) = Len(in)
            /\ \A i \in 1..Len(in) : out[i] = RuleResult(in[i], Core(in[i]))

\* C10, amended: the tokens keep their number and order, and each token,
\* looked up lower-cased with its trailing '.' and ',' stripped, follows the
\* three rules, the results of rules (1) and (2) being in lower case;
\* "led" gives "leading" and "gave" gives "giving".
C10_TokenRules ==
    probe.fn \in {"conjugate_to_ing", "reapplied"} =>
        LET in == Split(probe.text)
            out == Split(probe.out)
        IN  /\ Len(out) = Len(in)
            /\ \A i \in 1..Len(in) :
                  out[i] = RuleResult(in[i], Lower(Core(in[i])))
            /\ probe.text = "led" => probe.out = "leading"
            /\ probe.text = "gave" => probe.out = "giving"

\* an irregular verb in capitals and a regular one whose stem ends in "e"
C10_Witness ==
    /\ probe.fn = "conjugate_to_ing"
    /\ probe.text = "Led. restored,"
    /\ probe.out = "leading. restoring,"

====
